---- MODULE Spec2Model ----
(***************************************************************************)
(* Model of the two copyfile probes of jimhester/copyfile:                 *)
(*   - the standalone probe, main() of test.c, one process per run;        *)
(*   - the bound probe, copyfile_() of src/copyfile.c, called any number   *)
(*     of times from one host-interpreter process.                         *)
(* Each probe lives in its own world (file system, errno, output channel). *)
(* Both worlds start from the same file system, so that a run of one probe *)
(* can be compared with a run of the other from an equal state.            *)
(* The platform calls (copyfile, copyfile_state_alloc, printf, Rprintf,    *)
(* strerror, process exit) are the environment: where the platform leaves  *)
(* an outcome open (errno after a call that succeeded, errno after a       *)
(* print, an allocation that fails) the model takes every outcome.         *)
(***************************************************************************)
EXTENDS Integers, Sequences, FiniteSets, TLC

(***************************************************************************)
(* Bounds of the model.                                                    *)
(***************************************************************************)
MaxData == 2    \* file contents are drawn from 1..MaxData
MaxRuns == 2    \* runs of the standalone probe
MaxCalls == 2   \* invocations of the bound probe

Paths == {"a", "b"}
Contents == 1..MaxData

(***************************************************************************)
(* Error numbers (errno.h of the platform) and their strerror texts.       *)
(***************************************************************************)
ENOENT == 2
ENOMEM == 12
EACCES == 13
EEXIST == 17
ENOTTY == 25

Errnos == {0, ENOENT, ENOMEM, EACCES, EEXIST, ENOTTY}

strerror(e) ==
  CASE e = 0      -> "Undefined error: 0"
    [] e = ENOENT -> "No such file or directory"
    [] e = ENOMEM -> "Cannot allocate memory"
    [] e = EACCES -> "Permission denied"
    [] e = EEXIST -> "File exists"
    [] e = ENOTTY -> "Inappropriate ioctl for device"
    [] OTHER      -> "Unknown error"

(***************************************************************************)
(* 32-bit flag words.  A word is kept as its two 16-bit halves, since the  *)
(* value 2^31 is beyond the integers TLC computes with.                   *)
(***************************************************************************)
W16 == 2^16

RECURSIVE Or16(_, _, _)
Or16(x, y, n) ==
  IF n = 0 THEN 0
  ELSE (IF x % 2 = 1 \/ y % 2 = 1 THEN 1 ELSE 0)
       + 2 * Or16(x \div 2, y \div 2, n - 1)

BitOr(f, g) == [hi |-> Or16(f.hi, g.hi, 16), lo |-> Or16(f.lo, g.lo, 16)]

\* (1 << n) as a 32-bit pattern.  For n = 31 the C int is INT_MIN on every
\* build; converted to the unsigned flags type it is the pattern with only
\* bit 31 set.
Shl1(n) == IF n < 16 THEN [hi |-> 0, lo |-> 2^n]
                     ELSE [hi |-> (2^(n - 16)) % W16, lo |-> 0]

HasBit(f, n) == IF n < 16 THEN (f.lo \div 2^n) % 2 = 1
                          ELSE (f.hi \div 2^(n - 16)) % 2 = 1

BitsOf(f) == {n \in 0..31 : HasBit(f, n)}

COPYFILE_ACL == Shl1(0)
COPYFILE_STAT == Shl1(1)
COPYFILE_XATTR == Shl1(2)
COPYFILE_DATA == Shl1(3)
COPYFILE_SECURITY == BitOr(COPYFILE_STAT, COPYFILE_ACL)
COPYFILE_METADATA == BitOr(COPYFILE_SECURITY, COPYFILE_XATTR)
COPYFILE_ALL == BitOr(COPYFILE_METADATA, COPYFILE_DATA)
COPYFILE_EXCL == Shl1(17)

\* variant: the debug flag on bit 30
COPYFILE_DEBUG_bit30 == Shl1(30)

COPYFILE_DEBUG == Shl1(31)

\* the option words at the two call sites
MainFlags == BitOr(COPYFILE_ALL, COPYFILE_EXCL)

\* variant: the bound probe's option word without exclusive-create
BoundFlags_noExcl == BitOr(COPYFILE_ALL, COPYFILE_DEBUG)

BoundFlags == BitOr(BitOr(COPYFILE_ALL, COPYFILE_EXCL), COPYFILE_DEBUG)

(***************************************************************************)
(* File systems: one entry per path.                                       *)
(***************************************************************************)
NoFile == [exists |-> FALSE, data |-> 0, readable |-> FALSE]

File(d, r) == [exists |-> TRUE, data |-> d, readable |-> r]

Files == {NoFile} \cup {File(d, TRUE) : d \in Contents} \cup {File(1, FALSE)}

FileSystems == [Paths -> Files]

(***************************************************************************)
(* The copy primitive, copyfile(from, to, state, flags).  The source is    *)
(* opened first, then the destination is created (exclusively when         *)
(* COPYFILE_EXCL is set).  Failure returns -1 with the error number; on    *)
(* success the result is 0 and the error number is not set by the          *)
(* operator (err = 0 stands for "not set").                                *)
(***************************************************************************)
copyfile(fs, from, to, state, flags) ==
  IF ~fs[from].exists THEN [res |-> -1, err |-> ENOENT, fs |-> fs]
  ELSE IF ~fs[from].readable THEN [res |-> -1, err |-> EACCES, fs |-> fs]
  ELSE IF fs[to].exists /\ HasBit(flags, 17)
    THEN [res |-> -1, err |-> EEXIST, fs |-> fs]
  ELSE [res |-> 0, err |-> 0,
        fs |-> [fs EXCEPT ![to] =
                  File(IF HasBit(flags, 3) THEN fs[from].data
                       ELSE IF fs[to].exists THEN fs[to].data ELSE 0,
                       IF HasBit(flags, 1) THEN fs[from].readable
                       ELSE IF fs[to].exists THEN fs[to].readable ELSE TRUE)]]

\* Error numbers a call of copyfile that succeeded may leave behind: it
\* never stores 0, it may leave errno alone (0 here), and it may leave the
\* error number of an internal lookup that found nothing.
SuccessResidue == {0, ENOENT}

\* The values errno may hold after a call of copyfile started with errno = e.
ErrnoAfterCopy(e, out) ==
  IF out.res = -1 THEN {out.err}
  ELSE {IF r = 0 THEN e ELSE r : r \in SuccessResidue}

\* The values errno may hold after a print started with errno = e: a first
\* write to an output stream that is a device but not a terminal leaves
\* ENOTTY.
ErrnoAfterPrint(e) == {e, ENOTTY}

\* Exit status of a process whose main returns v: the low 8 bits.
ExitStatus(v) == v % 256

NULL == 0
R_NilValue == "R_NilValue"
NoValue == "none"

Line(r, e, newline) == [res |-> r, err |-> e, str |-> strerror(e), nl |-> newline]

VARIABLES
  fsM,        \* file system of the standalone probe's world
  pcM,        \* position of the standalone probe
  runsM,      \* runs of the standalone probe started so far
  argv,       \* <<argv[1], argv[2]>> of the current run
  errnoM,     \* errno of the standalone process
  resM,       \* res of main
  outM,       \* standard output of the current run
  exitM,      \* exit status of the last finished run
  callM,      \* the arguments main handed to copyfile
  preM,       \* file system at the start of the current run
  leftM,      \* errno as the copy call of the current run left it
  fsR,        \* file system of the host interpreter's world
  pcR,        \* position of the bound probe
  callsR,     \* invocations of the bound probe returned so far
  errnoR,     \* errno of the host process
  resR,       \* res of copyfile_
  outR,       \* lines the current invocation sent to the host output
  retR,       \* value the last invocation returned
  s,          \* the context handle s
  heap,       \* contexts allocated and not released
  requested,  \* allocation requests made so far
  failed,     \* allocation requests that failed
  callR,      \* the arguments copyfile_ handed to copyfile
  preR,       \* file system at the start of the current invocation
  leftR       \* errno as the copy call of the current invocation left it

varsM == <<fsM, pcM, runsM, argv, errnoM, resM, outM, exitM, callM, preM, leftM>>
varsR == <<fsR, pcR, callsR, errnoR, resR, outR, retR, s, heap, requested,
           failed, callR, preR, leftR>>
vars == <<varsM, varsR>>

NoCall == [from |-> "", to |-> "", state |-> NULL, flags |-> [hi |-> 0, lo |-> 0]]

Init ==
  /\ fsM \in FileSystems
  /\ fsR = fsM
  /\ pcM = "idle" /\ runsM = 0 /\ argv = <<"", "">> /\ errnoM = 0
  /\ resM = 0 /\ outM = <<>> /\ exitM = 0 /\ callM = NoCall
  /\ preM = fsM /\ leftM = 0
  /\ pcR = "idle" /\ callsR = 0 /\ errnoR = 0 /\ resR = 0
  /\ outR = <<>> /\ retR = NoValue /\ s = NULL /\ heap = {} /\ requested = 0
  /\ failed = 0
  /\ callR = NoCall /\ preR = fsM /\ leftR = 0

(***************************************************************************)
(* The standalone probe, main of test.c.                                   *)
(***************************************************************************)
\* the program is started with two path arguments; a new process starts
\* with errno = 0 and an empty standard output
main_start(from, to) ==
  /\ pcM \in {"idle", "exited"} /\ pcR = "idle"
  /\ runsM < MaxRuns
  /\ runsM' = runsM + 1
  /\ argv' = <<from, to>>
  /\ errnoM' = 0 /\ outM' = <<>> /\ resM' = 0 /\ exitM' = 0
  /\ callM' = NoCall /\ preM' = fsM /\ leftM' = 0
  /\ pcM' = "L7"
  /\ UNCHANGED <<fsM, varsR>>

\* errno = 0;
main_L7 ==
  /\ pcM = "L7"
  /\ errnoM' = 0
  /\ pcM' = "L8"
  /\ UNCHANGED <<fsM, runsM, argv, resM, outM, exitM, callM, preM, leftM, varsR>>

\* int res = copyfile(argv[1], argv[2], NULL, COPYFILE_ALL | COPYFILE_EXCL);
main_L8 ==
  /\ pcM = "L8"
  /\ LET out == copyfile(fsM, argv[1], argv[2], NULL, MainFlags) IN
       /\ resM' = out.res
       /\ fsM' = out.fs
       /\ errnoM' \in ErrnoAfterCopy(errnoM, out)
  /\ leftM' = errnoM'
  /\ callM' = [from |-> argv[1], to |-> argv[2], state |-> NULL, flags |-> MainFlags]
  /\ pcM' = "L9"
  /\ UNCHANGED <<runsM, argv, outM, exitM, preM, varsR>>

\* variant: the print is not guarded by the result
main_L9_always ==
  /\ pcM = "L9"
  /\ outM' = Append(outM, Line(resM, errnoM, FALSE))
  /\ errnoM' \in ErrnoAfterPrint(errnoM)
  /\ pcM' = "L12"
  /\ UNCHANGED <<fsM, runsM, argv, resM, exitM, callM, preM, leftM, varsR>>

\* if (res == -1) { printf("%i:%i:%s", res, errno, strerror(errno)); }
main_L9 ==
  /\ pcM = "L9"
  /\ IF resM = -1
       THEN /\ outM' = Append(outM, Line(resM, errnoM, FALSE))
            /\ errnoM' \in ErrnoAfterPrint(errnoM)
       ELSE UNCHANGED <<outM, errnoM>>
  /\ pcM' = "L12"
  /\ UNCHANGED <<fsM, runsM, argv, resM, exitM, callM, preM, leftM, varsR>>

\* return errno;
main_L12 ==
  /\ pcM = "L12"
  /\ exitM' = ExitStatus(errnoM)
  /\ pcM' = "exited"
  /\ UNCHANGED <<fsM, runsM, argv, errnoM, resM, outM, callM, preM, leftM, varsR>>

main ==
  \/ \E from \in Paths, to \in Paths : main_start(from, to)
  \/ main_L7
  \/ main_L8
  \/ main_L9
  \/ main_L12

(***************************************************************************)
(* The bound probe, copyfile_ of src/copyfile.c.                           *)
(***************************************************************************)
\* the host interpreter calls the registered routine; errno holds whatever
\* the host's earlier operations left in it
copyfile__call(stale) ==
  /\ pcR = "idle" /\ pcM \in {"idle", "exited"}
  /\ callsR < MaxCalls
  /\ errnoR' = stale
  /\ outR' = <<>> /\ resR' = 0 /\ retR' = NoValue
  /\ callR' = NoCall /\ preR' = fsR /\ leftR' = 0
  /\ pcR' = "L13"
  /\ UNCHANGED <<fsR, callsR, s, heap, requested, failed, varsM>>

\* errno = 0;
copyfile__L13 ==
  /\ pcR = "L13"
  /\ errnoR' = 0
  /\ pcR' = "L14"
  /\ UNCHANGED <<fsR, callsR, resR, outR, retR, s, heap, requested, failed,
                 callR, preR, leftR, varsM>>

\* variant: the context of the previous invocation is released before the
\* handle is overwritten
copyfile__L14_release ==
  /\ pcR = "L14"
  /\ requested' = requested + 1
  /\ \/ /\ s' = requested + 1
        /\ heap' = (heap \ {s}) \cup {requested + 1}
        /\ UNCHANGED <<errnoR, failed>>
     \/ /\ s' = NULL
        /\ errnoR' = ENOMEM
        /\ failed' = failed + 1
        /\ heap' = heap \ {s}
  /\ pcR' = "L15"
  /\ UNCHANGED <<fsR, callsR, resR, outR, retR, callR, preR, leftR, varsM>>

\* s = copyfile_state_alloc();
\* the allocation either yields a fresh context, or fails: NULL, ENOMEM
copyfile__L14 ==
  /\ pcR = "L14"
  /\ requested' = requested + 1
  /\ \/ /\ s' = requested + 1
        /\ heap' = heap \cup {requested + 1}
        /\ UNCHANGED <<errnoR, failed>>
     \/ /\ s' = NULL
        /\ errnoR' = ENOMEM
        /\ failed' = failed + 1
        /\ UNCHANGED heap
  /\ pcR' = "L15"
  /\ UNCHANGED <<fsR, callsR, resR, outR, retR, callR, preR, leftR, varsM>>

\* int res = copyfile("a", "b", NULL,
\*                    COPYFILE_ALL | COPYFILE_EXCL | COPYFILE_DEBUG);
copyfile__L15 ==
  /\ pcR = "L15"
  /\ LET out == copyfile(fsR, "a", "b", NULL, BoundFlags) IN
       /\ resR' = out.res
       /\ fsR' = out.fs
       /\ errnoR' \in ErrnoAfterCopy(errnoR, out)
  /\ leftR' = errnoR'
  /\ callR' = [from |-> "a", to |-> "b", state |-> NULL, flags |-> BoundFlags]
  /\ pcR' = "L16"
  /\ UNCHANGED <<callsR, outR, retR, s, heap, requested, failed, preR, varsM>>

\* Rprintf("%i:%i:%s\n", res, errno, strerror(errno));
copyfile__L16 ==
  /\ pcR = "L16"
  /\ outR' = Append(outR, Line(resR, errnoR, TRUE))
  /\ errnoR' \in ErrnoAfterPrint(errnoR)
  /\ pcR' = "L17"
  /\ UNCHANGED <<fsR, callsR, resR, retR, s, heap, requested, failed, callR,
                 preR, leftR, varsM>>

\* variant: a failed copy is handed back to the caller
copyfile__L17_propagate ==
  /\ pcR = "L17"
  /\ retR' = IF resR = -1 THEN "error" ELSE R_NilValue
  /\ callsR' = callsR + 1
  /\ pcR' = "idle"
  /\ UNCHANGED <<fsR, errnoR, resR, outR, s, heap, requested, failed, callR,
                 preR, leftR, varsM>>

\* return R_NilValue;
copyfile__L17 ==
  /\ pcR = "L17"
  /\ retR' = R_NilValue
  /\ callsR' = callsR + 1
  /\ pcR' = "idle"
  /\ UNCHANGED <<fsR, errnoR, resR, outR, s, heap, requested, failed, callR,
                 preR, leftR, varsM>>

copyfile_ ==
  \/ \E stale \in Errnos : copyfile__call(stale)
  \/ copyfile__L13
  \/ copyfile__L14
  \/ copyfile__L15
  \/ copyfile__L16
  \/ copyfile__L17

Next == main \/ copyfile_

Spec == Init /\ [][Next]_vars

TypeOK ==
  /\ fsM \in FileSystems /\ fsR \in FileSystems
  /\ errnoM \in Errnos /\ errnoR \in Errnos
  /\ resM \in {0, -1} /\ resR \in {0, -1}
  /\ exitM \in 0..255

(***************************************************************************)
(* Properties.                                                             *)
(***************************************************************************)
mainExited == pcM = "exited"
boundReturned == pcR = "idle" /\ callsR > 0
Triple(l) == <<l.res, l.err, l.str>>
Triples(out) == [i \in 1..Len(out) |-> Triple(out[i])]
srcM == preM[argv[1]]
dstM == preM[argv[2]]

\* C1: in every finished run of the standalone probe the exit status is the
\* error number the copy call left, and it is 0 when the copy call succeeded.
C1_ExitIsCopyErrno ==
  mainExited => (exitM = leftM /\ (resM = 0 => exitM = 0))

\* C2: a run of the standalone probe whose destination already exists (the
\* source being there and readable) exits with EEXIST, which is not 0, and
\* prints -1, EEXIST and the text of EEXIST.
C2_ExistingDestination ==
  (mainExited /\ srcM.exists /\ srcM.readable /\ dstM.exists)
    => (exitM = EEXIST /\ exitM # 0 /\ outM = <<Line(-1, EEXIST, FALSE)>>)

\* C3: a run of the standalone probe with a readable source and a missing
\* destination leaves the destination with the source's contents, leaves the
\* source as it was, and exits 0.
C3_CopiesAndExitsZero ==
  (mainExited /\ srcM.exists /\ srcM.readable /\ ~dstM.exists)
    => /\ fsM[argv[2]].exists /\ fsM[argv[2]].data = srcM.data
       /\ fsM[argv[1]] = srcM
       /\ exitM = 0

\* C4: a run of the standalone probe whose source is missing exits with
\* ENOENT, which is not 0, whether or not the destination exists.
C4_MissingSource ==
  (mainExited /\ ~srcM.exists) => (exitM = ENOENT /\ exitM # 0)

\* C5: every invocation of the bound probe hands R_NilValue to its caller,
\* after a failed copy as after a successful one, and has sent exactly one
\* line "res:errno:strerror(errno)" to the host output.
C5_NullReturnOneLine ==
  /\ boundReturned => (retR = R_NilValue /\ outR = <<Line(resR, leftR, TRUE)>>)
  /\ pcR = "L17" => outR = <<Line(resR, leftR, TRUE)>>
  /\ pcR \in {"L13", "L14", "L15", "L16"} => outR = <<>>

C5_Witness ==
  boundReturned /\ resR = -1 /\ retR = R_NilValue /\ Len(outR) = 1

\* a finished run of main on "a", "b" and a returned invocation of copyfile_
\* that started from the same file system
Comparable ==
  /\ mainExited /\ boundReturned
  /\ argv = <<"a", "b">>
  /\ preM = preR

SameAttempt ==
  /\ callR.from = callM.from /\ callR.to = callM.to
  /\ callR.state = callM.state
  /\ BitsOf(callR.flags) = BitsOf(callM.flags) \cup {31}
  /\ fsR = fsM
  /\ resR = resM

\* C6 as stated: from equal file systems the bound probe and the standalone
\* probe on "a", "b" make the same copy attempt, leave the same file system
\* and print the same thing at the same time.
C6_Identical ==
  Comparable => (SameAttempt /\ Triples(outR) = Triples(outM))

\* C6 amended: from equal file systems the two probes make the same copy
\* attempt (the bound probe's option word has the debug bit in addition),
\* get the same result and leave the same file system; when the copy fails
\* both print the same result, error number and text (the bound probe ends
\* its line with a newline), and when it succeeds the standalone probe
\* prints nothing while the bound probe still prints its one line.
C6_SameAttemptDifferentReport ==
  Comparable =>
    /\ SameAttempt
    /\ resM = -1 => (Triples(outR) = Triples(outM) /\ Len(outM) = 1)
    /\ resM = 0 => (outM = <<>> /\ Len(outR) = 1 /\ outR[1].res = 0)

C6_Witness ==
  Comparable /\ resM = 0 /\ resR = 0 /\ fsR["b"].exists /\ ~preR["b"].exists

C8_ExactlyOnePerCall ==
  boundReturned => Cardinality(heap) = callsR

\* C8 amended: every invocation of the bound probe makes exactly one
\* allocation request and releases nothing, so after n invocations the
\* outstanding contexts are the n requested less those whose allocation
\* failed (exactly n when none failed); the copy call is handed a null
\* context, never the allocated one.
C8_OneRequestNeverReleased ==
  /\ Cardinality(heap) = requested - failed
  /\ pcR = "idle" => requested = callsR
  /\ pcR \in {"L15", "L16", "L17"} => requested = callsR + 1
  /\ s # NULL => s \in heap
  /\ callR # NoCall => (callR.state = NULL /\ callR.state \notin heap)

C8_Witness ==
  boundReturned /\ callsR >= 2 /\ Cardinality(heap) = callsR /\ resR = -1

\* C9: the option word handed to the copy primitive is the same at every
\* call of a call site: copy-all with exclusive-create in the standalone
\* probe, and in the bound probe that word with bit 31 in addition, that is
\* the standalone word plus 2^31 (2^15 in the upper half-word), the copy-all
\* and exclusive-create bits unchanged.
C9_FixedMasks ==
  /\ callM # NoCall =>
       /\ BitsOf(callM.flags) = {0, 1, 2, 3, 17}
       /\ callM.flags = BitOr(COPYFILE_ALL, COPYFILE_EXCL)
  /\ callR # NoCall =>
       /\ BitsOf(callR.flags) = {0, 1, 2, 3, 17, 31}
       /\ callR.flags.lo = 15
       /\ callR.flags.hi = 2 + 2^15

C9_Witness ==
  /\ callM # NoCall /\ callR # NoCall
  /\ callR.flags.hi = callM.flags.hi + 2^15 /\ callR.flags.lo = callM.flags.lo

\* C10: the error number a probe reports (printed by either probe, returned
\* as exit status by the standalone probe) is the one left by the copy call
\* of that invocation, and it is 0 whenever that copy call succeeded.
C10_ReportedErrnoNotStale ==
  /\ boundReturned => (outR[1].err = leftR /\ (resR = 0 => outR[1].err = 0))
  /\ mainExited => /\ outM # <<>> => outM[1].err = leftM
                   /\ resM = 0 => exitM = 0

====
